---- MODULE Spec2Model ----
(***************************************************************************)
(* Model of the NoahKYCRegistry zkApp (packages/noah-mina-sdk) and of the  *)
(* off-chain state it keeps through o1js' OffchainState: contract methods  *)
(* append account updates carrying compare-and-set actions, and a          *)
(* settlement folds the account updates appended since the committed       *)
(* action cursor into the committed key -> record map and counter.         *)
(***************************************************************************)
EXTENDS Integers, Sequences, FiniteSets, TLC

\* ---------------------------------------------------------------- bounds
\* number of signing public keys (holders / admins), numbered 1..NumKeys
NumKeys == 2
\* ledger heights (network.blockchainLength) are 0..MaxHeight
MaxHeight == 1
\* account updates with actions that the action history may hold
MaxActions == 2

\* ---------------------------------------------------------------- values
\* PublicKey.empty(): nobody holds a private key for it, so it never signs
Empty == 0
Keys == 1..NumKeys
AllKeys == Keys \cup {Empty}
\* commitment arguments: zero, and the commitments of two identities
Commitments == {0, 1, 2}
\* issuerHash arguments: zero, and getIssuerHash() of the SDK's one attester
IssuerHashes == {0, 1}

\* KYCRecord.empty()
KYCRecordEmpty ==
    [commitment |-> 0, issuerHash |-> 0, registeredAt |-> 0, isActive |-> FALSE]

\* Option<T> as returned by OffchainState get(): a none carries the type's
\* dummy value, so two options are equal exactly when their leaves are
NoneRecord == [isSome |-> FALSE, value |-> KYCRecordEmpty]
NoneTotal == [isSome |-> FALSE, value |-> 0]
Some(v) == [isSome |-> TRUE, value |-> v]
orElse(opt, default) == IF opt.isSome THEN opt.value ELSE default

VARIABLES
    admin,               \* @state(PublicKey) admin
    kycRecords,          \* settled map PublicKey -> Option<KYCRecord>
    totalRegistrations,  \* settled Option<UInt64>
    actions,             \* every account update that carried actions, in ledger order
    actionCursor,        \* how many entries of actions the committed state has folded
    blockchainLength,    \* network.blockchainLength
    lastError,           \* the failure reported by the latest call, NoError on success
    proof,               \* the settlement proof created and not yet sent to settle
    call,                \* the latest SDK call outside the registry methods, with its outcome
    other,               \* the second registry of the process, while the caller uses the first
    ui                   \* the state of the useNoahSDK hook and its calls in flight

vars == <<admin, kycRecords, totalRegistrations, actions, actionCursor,
          blockchainLength, lastError, proof, call, other, ui>>

\* the settled off-chain state behind offchainStateCommitments.root
Settled == [kycRecords |-> kycRecords, totalRegistrations |-> totalRegistrations]

\* offchainState.emptyCommitments(): empty map, unset counter
Genesis ==
    [kycRecords |-> [k \in AllKeys |-> NoneRecord], totalRegistrations |-> NoneTotal]

\* offchainStateCommitments: the root stands for the settled state it commits
\* to, the action state for the position reached in the action history
StateCommitments(st, cursor) == [root |-> st, actionState |-> cursor]

\* no settlement proof is waiting
NoProof ==
    [waiting |-> FALSE, publicInput |-> StateCommitments(Genesis, 0),
     publicOutput |-> StateCommitments(Genesis, 0)]

\* no SDK call outside the registry methods has been made
NoCall == [op |-> "none"]

\* a deployed registry: the contract instance at its own address, with the
\* on-chain state, the action history and the off-chain state of that account
Registry(id, a, records, total, history, cursor) ==
    [id |-> id, admin |-> a, kycRecords |-> records, totalRegistrations |-> total,
     actions |-> history, actionCursor |-> cursor]

\* a registry as deployed
Deployed(id) ==
    Registry(id, Empty, Genesis.kycRecords, Genesis.totalRegistrations, <<>>, 0)

\* ------------------------------------------------------- the hook's state
\* no asynchronous action of the hook is running
NoTask == [op |-> "none", pc |-> "", sdk |-> "none", address |-> Empty,
           sender |-> Empty, registered |-> FALSE, settled |-> FALSE]

\* kycRecord = null
NoKycRecord == [shown |-> FALSE, isActive |-> FALSE, address |-> Empty]

\* useState / useRef initial values: wallet disconnected, no SDK object, step
\* 'scan', no data, no error
InitialHook ==
    [wallet |-> [connected |-> FALSE, address |-> Empty],
     sdk |-> "none", userKey |-> Empty,
     currentStep |-> "scan", mrzData |-> FALSE, credential |-> FALSE,
     presentation |-> FALSE, kycRecord |-> NoKycRecord,
     loading |-> FALSE, error |-> "",
     task |-> NoTask, checks |-> {}]

\* what the latest call reported: success, or the method and the assertion
\* that failed (TransactionResult.success = false with its error)
NoError == [op |-> "", error |-> ""]
Failed(op, error) == [op |-> op, error |-> error]

\* calls are made one at a time: a failed call hands its error to the caller
\* before the next call is made
Ready == lastError = NoError

Init ==
    /\ admin = Empty
    /\ kycRecords = Genesis.kycRecords
    /\ totalRegistrations = Genesis.totalRegistrations
    /\ actions = <<>>
    /\ actionCursor = 0
    /\ blockchainLength = 0
    /\ lastError = NoError
    /\ proof = NoProof
    /\ call = NoCall
    /\ other = Deployed(2)
    /\ ui = InitialHook

\* ------------------------------------------------------------ admin methods
\* setAdmin(admin): reads the current admin and overwrites it
setAdmin(newAdmin) ==
    /\ Ready
    /\ admin' = newAdmin
    /\ lastError' = NoError
    /\ UNCHANGED <<kycRecords, totalRegistrations, actions, actionCursor,
                   blockchainLength>>

\* C3 mutant: the sender check is missing
transferAuthorizedAnySender(sender, currentAdmin) == TRUE

\* C34 mutant: an unset admin lets every sender through
transferAuthorizedWhenUnset(sender, currentAdmin) ==
    sender = currentAdmin \/ currentAdmin = Empty

\* sender.assertEquals(admin)
transferAuthorized(sender, currentAdmin) == sender = currentAdmin

\* transferOwnership(newAdmin): sender.assertEquals(admin), then admin.set
transferOwnership(sender, newAdmin) ==
    /\ Ready
    /\ IF transferAuthorized(sender, admin)
       THEN /\ admin' = newAdmin
            /\ lastError' = NoError
       ELSE /\ admin' = admin
            /\ lastError' = Failed("transferOwnership", "AuthorizationError")
    /\ UNCHANGED <<kycRecords, totalRegistrations, actions, actionCursor,
                   blockchainLength>>

\* ------------------------------------------------------------- registerKYC
\* C7 mutant: the issuerHash assertion is missing
registerArgsOkCommitmentOnly(commitment, issuerHash) == commitment # 0

\* C32 mutant: neither argument is asserted
registerArgsOkUnchecked(commitment, issuerHash) == TRUE

\* commitment.assertNotEquals(Field(0)); issuerHash.assertNotEquals(Field(0))
registerArgsOk(commitment, issuerHash) == commitment # 0 /\ issuerHash # 0

\* C8 mutant: commitment and issuerHash end up in each other's field
newRecordSwapped(commitment, issuerHash, blockLength) ==
    [commitment |-> issuerHash, issuerHash |-> commitment,
     registeredAt |-> blockLength, isActive |-> TRUE]

\* the KYCRecord registerKYC writes
newRecord(commitment, issuerHash, blockLength) ==
    [commitment |-> commitment, issuerHash |-> issuerHash,
     registeredAt |-> blockLength, isActive |-> TRUE]

\* C9 mutant: every registration counts, a re-registration too
newTotalAlways(existing, total) == total + 1

\* C22 mutant: the counter is written back as it was read
newTotalNever(existing, total) == total

\* Provable.if(isNew, total.add(1), total), isNew = existing.commitment = 0
newTotal(existing, total) ==
    IF existing.commitment = 0 THEN total + 1 ELSE total

\* kycRecords.update(key, {from, to}) / totalRegistrations.update({from, to})
Update(field, key, from, to) ==
    [field |-> field, key |-> key, from |-> from, to |-> to]

\* the account update a successful method call leaves in the action history,
\* in the block that is being produced
AccountUpdate(op, sender, adminRead, updates) ==
    [op |-> op, sender |-> sender, adminRead |-> adminRead, updates |-> updates,
     slot |-> blockchainLength]

\* C19 mutant: the record is read and written under the fee payer's key
\* (key 1), not under the sender's
registerUpdatesFeePayerKey(sender, commitment, issuerHash) ==
    LET existingOption == kycRecords[1]
        existing == orElse(existingOption, KYCRecordEmpty)
        totalOption == totalRegistrations
        total == orElse(totalOption, 0)
    IN  << Update("kycRecords", 1, existingOption,
                  newRecord(commitment, issuerHash, blockchainLength)),
           Update("totalRegistrations", Empty, totalOption,
                  newTotal(existing, total)) >>

\* the actions registerKYC dispatches for sender
registerUpdates(sender, commitment, issuerHash) ==
    LET existingOption == kycRecords[sender]
        existing == orElse(existingOption, KYCRecordEmpty)
        totalOption == totalRegistrations
        total == orElse(totalOption, 0)
    IN  << Update("kycRecords", sender, existingOption,
                  newRecord(commitment, issuerHash, blockchainLength)),
           Update("totalRegistrations", Empty, totalOption,
                  newTotal(existing, total)) >>

registerKYC(sender, commitment, issuerHash) ==
    /\ Ready
    /\ IF ~registerArgsOk(commitment, issuerHash)
       THEN /\ actions' = actions
            /\ lastError' = Failed("registerKYC", "ZeroCommitmentError")
       ELSE /\ Len(actions) < MaxActions
            /\ actions' = Append(actions,
                   AccountUpdate("registerKYC", sender, Empty,
                                 registerUpdates(sender, commitment, issuerHash)))
            /\ lastError' = NoError
    /\ UNCHANGED <<admin, kycRecords, totalRegistrations, actionCursor,
                   blockchainLength>>

\* --------------------------------------------------------------- revokeKYC
\* C1 mutant: the sender check is missing
revokeAuthorizedAnySender(sender, currentAdmin) == TRUE

\* C4 mutant: an unset admin lets every sender through
revokeAuthorizedWhenUnset(sender, currentAdmin) ==
    sender = currentAdmin \/ currentAdmin = Empty

\* sender.assertEquals(admin)
revokeAuthorized(sender, currentAdmin) == sender = currentAdmin

\* C5 mutant: the isActive assertion is missing
revokeTargetOkUnchecked(existing) == TRUE

\* existing.isActive.assertTrue()
revokeTargetOk(existing) == existing.isActive

\* C6 mutant: the revoked record is rebuilt without its registration height
revokedRecordNoHeight(existing) ==
    [commitment |-> existing.commitment, issuerHash |-> existing.issuerHash,
     registeredAt |-> 0, isActive |-> FALSE]

\* C20 mutant: revoking stores the empty record
revokedRecordDeleted(existing) == KYCRecordEmpty

\* the KYCRecord revokeKYC writes
revokedRecord(existing) ==
    [commitment |-> existing.commitment, issuerHash |-> existing.issuerHash,
     registeredAt |-> existing.registeredAt, isActive |-> FALSE]

revokeKYC(sender, user) ==
    LET existingOption == kycRecords[user]
        existing == orElse(existingOption, KYCRecordEmpty)
    IN
    /\ Ready
    /\ IF ~revokeAuthorized(sender, admin)
       THEN /\ actions' = actions
            /\ lastError' = Failed("revokeKYC", "AuthorizationError")
       ELSE IF ~revokeTargetOk(existing)
       THEN /\ actions' = actions
            /\ lastError' = Failed("revokeKYC", "NotActiveError")
       ELSE /\ Len(actions) < MaxActions
            /\ actions' = Append(actions,
                   AccountUpdate("revokeKYC", sender, admin,
                       << Update("kycRecords", user, existingOption,
                                 revokedRecord(existing)) >>))
            /\ lastError' = NoError
    /\ UNCHANGED <<admin, kycRecords, totalRegistrations, actionCursor,
                   blockchainLength>>

\* -------------------------------------------------------------- settlement
\* offchainState.createSettlementProof() folds the account updates dispatched
\* since the committed action state, in ledger order. Each update carries the
\* option read at call time (from) as a precondition on its leaf. The updates
\* of one account update are applied together when all their preconditions
\* hold and are skipped together otherwise; the settlement itself goes on.
\* the value an off-chain field holds in state st
Leaf(st, u) ==
    IF u.field = "kycRecords" THEN st.kycRecords[u.key] ELSE st.totalRegistrations

\* an update's precondition: the leaf still equals the value read at call time
Matches(st, u) == Leaf(st, u) = u.from

\* store the update's new value
Store(st, u) ==
    IF u.field = "kycRecords"
    THEN [st EXCEPT !.kycRecords[u.key] = Some(u.to)]
    ELSE [st EXCEPT !.totalRegistrations = Some(u.to)]

\* fold the updates of one account update over an intermediate state,
\* remembering whether every precondition held
RECURSIVE FoldUpdates(_, _, _)
FoldUpdates(updates, inter, valid) ==
    IF updates = <<>> THEN [st |-> inter, valid |-> valid]
    ELSE FoldUpdates(Tail(updates), Store(inter, Head(updates)),
                     valid /\ Matches(inter, Head(updates)))

\* an account update is valid when all its preconditions hold
ValidUpdate(st, au) == FoldUpdates(au.updates, st, TRUE).valid

\* an account update takes effect as a whole or not at all
ApplyAccountUpdate(st, au) ==
    IF ValidUpdate(st, au) THEN FoldUpdates(au.updates, st, TRUE).st ELSE st

RECURSIVE Replay(_, _)
\* C14 mutant: a fold over no account update returns the empty commitments
ReplayEmptyResets(st, aus) ==
    IF aus = <<>> THEN Genesis
    ELSE IF Len(aus) = 1 THEN ApplyAccountUpdate(st, aus[1])
    ELSE Replay(ApplyAccountUpdate(st, Head(aus)), Tail(aus))

\* fold account updates, in ledger order
Replay(st, aus) ==
    IF aus = <<>> THEN st
    ELSE Replay(ApplyAccountUpdate(st, Head(aus)), Tail(aus))

\* C13 mutant: the fold starts one account update too late
PendingSkipFirst == SubSeq(actions, actionCursor + 2, Len(actions))

\* the account updates appended since the committed cursor
Pending == SubSeq(actions, actionCursor + 1, Len(actions))

\* settleState(): createSettlementProof over the pending account updates,
\* then settle(proof) commits the new root and the new cursor together
settleState ==
    LET to == Replay(Settled, Pending) IN
    /\ Ready
    /\ kycRecords' = to.kycRecords
    /\ totalRegistrations' = to.totalRegistrations
    /\ actionCursor' = Len(actions)
    /\ lastError' = NoError
    /\ UNCHANGED <<admin, actions, blockchainLength>>

\* ------------------------------------------------------------------ caller
\* catch (error) { return { success: false, error } }: the caller takes the
\* error of the failed call; nothing else changed
returnError ==
    /\ ~Ready
    /\ lastError' = NoError
    /\ UNCHANGED <<admin, kycRecords, totalRegistrations, actions, actionCursor,
                   blockchainLength>>

\* ------------------------------------------------------------- environment
\* the ledger produces a block
Block ==
    /\ Ready
    /\ blockchainLength < MaxHeight
    /\ blockchainLength' = blockchainLength + 1
    /\ lastError' = NoError
    /\ UNCHANGED <<admin, kycRecords, totalRegistrations, actions, actionCursor>>

\* the methods called one after the other, each settlement made in one go by
\* settleState: no settlement proof is ever left waiting
Next ==
    \/ \E a \in AllKeys : setAdmin(a) /\ UNCHANGED <<proof, call, other, ui>>
    \/ \E s \in Keys, a \in AllKeys : transferOwnership(s, a) /\ UNCHANGED <<proof, call, other, ui>>
    \/ \E s \in Keys, c \in Commitments, i \in IssuerHashes :
          registerKYC(s, c, i) /\ UNCHANGED <<proof, call, other, ui>>
    \/ \E s \in Keys, u \in AllKeys : revokeKYC(s, u) /\ UNCHANGED <<proof, call, other, ui>>
    \/ settleState /\ UNCHANGED <<proof, call, other, ui>>
    \/ returnError /\ UNCHANGED <<proof, call, other, ui>>
    \/ Block /\ UNCHANGED <<proof, call, other, ui>>

Spec == Init /\ [][Next]_vars

\* ------------------------------------------------- settlement proof in flight
\* settleState() awaits between createSettlementProof() and sending the settle
\* transaction, and several clients share one registry: the proof of one call
\* can wait while the transactions of other clients land.
\* the action states the account keeps: the one after the latest account update
\* of each of the last five slots that saw actions, the empty one before that
AccountActionStates ==
    LET ends == {n \in 1..Len(actions) :
                    n = Len(actions) \/ actions[n + 1].slot # actions[n].slot}
        kept == {n \in ends : Cardinality({m \in ends : m > n}) < 5}
    IN  IF Cardinality(ends) < 5 THEN kept \cup {0} ELSE kept

\* C17 mutant: the proof's output keeps the action state it started from
SettlementProofKeepsCursor ==
    [waiting |-> TRUE,
     publicInput |-> StateCommitments(Settled, actionCursor),
     publicOutput |-> StateCommitments(Replay(Settled, Pending), actionCursor)]

\* offchainState.createSettlementProof(): from the committed state over every
\* account update dispatched since
SettlementProof ==
    [waiting |-> TRUE,
     publicInput |-> StateCommitments(Settled, actionCursor),
     publicOutput |-> StateCommitments(Replay(Settled, Pending), Len(actions))]

\* const proof = await createSettlementProof(), the settle transaction not
\* yet sent
createSettlementProof ==
    /\ Ready
    /\ ~proof.waiting
    /\ proof' = SettlementProof
    /\ UNCHANGED <<admin, kycRecords, totalRegistrations, actions, actionCursor,
                   blockchainLength, lastError>>

\* C15 mutant: settle takes any verified proof
proofAcceptedUnchecked(p) == TRUE

\* C18 mutant: settle checks the action state precondition only
proofAcceptedActionStateOnly(p) ==
    p.publicOutput.actionState \in AccountActionStates

\* offchainState.settle(proof): the proof starts from the commitments stored
\* now, and ends at an action state the account holds
proofAccepted(p) ==
    /\ p.publicInput = StateCommitments(Settled, actionCursor)
    /\ p.publicOutput.actionState \in AccountActionStates

\* the settle transaction of the waiting proof
settle ==
    /\ Ready
    /\ proof.waiting
    /\ proof' = NoProof
    /\ IF proofAccepted(proof)
       THEN /\ kycRecords' = proof.publicOutput.root.kycRecords
            /\ totalRegistrations' = proof.publicOutput.root.totalRegistrations
            /\ actionCursor' = proof.publicOutput.actionState
            /\ lastError' = NoError
       ELSE /\ UNCHANGED <<kycRecords, totalRegistrations, actionCursor>>
            /\ lastError' = Failed("settle", "StaleSettlementError")
    /\ UNCHANGED <<admin, actions, blockchainLength>>

\* the registry after Init and setAdmin(1): an admin is stored, nothing else
\* has happened
InitProof ==
    /\ admin = 1
    /\ kycRecords = Genesis.kycRecords
    /\ totalRegistrations = Genesis.totalRegistrations
    /\ actions = <<>>
    /\ actionCursor = 0
    /\ blockchainLength = 0
    /\ lastError = NoError
    /\ proof = NoProof
    /\ call = NoCall
    /\ other = Deployed(2)
    /\ ui = InitialHook

\* registrations, revocations and blocks around a settlement whose proof waits
\* between its creation and its settle transaction, and the settlements other
\* clients make in one go. The admin methods are left out: they touch neither
\* the action history nor the commitments.
NextProof ==
    \/ \E s \in Keys, c \in Commitments \ {0}, i \in IssuerHashes \ {0} :
          registerKYC(s, c, i) /\ UNCHANGED <<proof, call, other, ui>>
    \/ \E s \in Keys, u \in Keys : revokeKYC(s, u) /\ UNCHANGED <<proof, call, other, ui>>
    \/ settleState /\ UNCHANGED <<proof, call, other, ui>>
    \/ createSettlementProof /\ UNCHANGED <<call, other, ui>>
    \/ settle /\ UNCHANGED <<call, other, ui>>
    \/ returnError /\ UNCHANGED <<proof, call, other, ui>>
    \/ Block /\ UNCHANGED <<proof, call, other, ui>>

SpecProof == InitProof /\ [][NextProof]_vars

\* ------------------------------------------------------- setAdmin never called
\* a registry that is deployed and then used as the SDK uses it: setAdmin is
\* never called
NextNoSetAdmin ==
    \/ \E s \in Keys, a \in AllKeys : transferOwnership(s, a) /\ UNCHANGED <<proof, call, other, ui>>
    \/ \E s \in Keys, c \in Commitments, i \in IssuerHashes :
          registerKYC(s, c, i) /\ UNCHANGED <<proof, call, other, ui>>
    \/ \E s \in Keys, u \in AllKeys : revokeKYC(s, u) /\ UNCHANGED <<proof, call, other, ui>>
    \/ settleState /\ UNCHANGED <<proof, call, other, ui>>
    \/ returnError /\ UNCHANGED <<proof, call, other, ui>>
    \/ Block /\ UNCHANGED <<proof, call, other, ui>>

SpecNoSetAdmin == Init /\ [][NextNoSetAdmin]_vars

\* ------------------------------------------------- after a settled revocation
\* the registry after holder 1 registered (commitment 1, issuer hash 1, at
\* height 0), admin 2 revoked the record and both were settled; the action
\* history up to that settlement is behind the cursor and left out
InitRevoked ==
    /\ admin = 2
    /\ kycRecords = [Genesis.kycRecords EXCEPT ![1] = Some(revokedRecord(newRecord(1, 1, 0)))]
    /\ totalRegistrations = Some(1)
    /\ actions = <<>>
    /\ actionCursor = 0
    /\ blockchainLength = 0
    /\ lastError = NoError
    /\ proof = NoProof
    /\ call = NoCall
    /\ other = Deployed(2)
    /\ ui = InitialHook

SpecRevoked == InitRevoked /\ [][Next]_vars

\* ----------------------------------------------------------- two registries
\* two SDK objects in one process, each with its own NoahKYCRegistry at its
\* own address on the one active ledger. The variables of the registry hold
\* the registry the caller is using, other holds the one it is not using.
thisId == 3 - other.id
This == Registry(thisId, admin, kycRecords, totalRegistrations, actions, actionCursor)

\* C30 mutant: one off-chain state instance for the process, linked to the
\* contract that was used last
contractOffchainStateShared(contract, last) == last

\* offchainState = offchainState.init(this): the instance of the contract
\* itself, which reads and dispatches on that contract's account
contractOffchainState(contract, last) == contract

\* the caller turns to the SDK object of the other registry: its contract
\* with that contract's admin, and the off-chain state instance it resolves to
useOther ==
    LET contract == other
        instance == contractOffchainState(other, This)
    IN  /\ Ready
        /\ admin' = contract.admin
        /\ kycRecords' = instance.kycRecords
        /\ totalRegistrations' = instance.totalRegistrations
        /\ actions' = instance.actions
        /\ actionCursor' = instance.actionCursor
        /\ other' = This
        /\ UNCHANGED <<blockchainLength, lastError, proof, call, ui>>

\* the ledger has room for one more account update
LedgerHasRoom == Len(actions) + Len(other.actions) < MaxActions

\* the methods of both registries, interleaved as the caller turns from one
\* to the other
NextTwo ==
    \/ \E a \in Keys : setAdmin(a) /\ UNCHANGED <<proof, call, other, ui>>
    \/ \E s \in Keys, a \in Keys : transferOwnership(s, a) /\ UNCHANGED <<proof, call, other, ui>>
    \/ \E s \in Keys, c \in Commitments \ {0}, i \in IssuerHashes \ {0} :
          LedgerHasRoom /\ registerKYC(s, c, i) /\ UNCHANGED <<proof, call, other, ui>>
    \/ \E s \in Keys, u \in Keys :
          LedgerHasRoom /\ revokeKYC(s, u) /\ UNCHANGED <<proof, call, other, ui>>
    \/ settleState /\ UNCHANGED <<proof, call, other, ui>>
    \/ returnError /\ UNCHANGED <<proof, call, other, ui>>
    \/ useOther

SpecTwo == Init /\ [][NextTwo]_vars

\* ----------------------------------------------------------------- queries
\* C12 mutant: the read also folds the account updates that are still pending
kycRecordsGetPending(user) == Replay(Settled, Pending).kycRecords[user]

\* offchainState.fields.kycRecords.get(user): the leaf of the settled map
kycRecordsGet(user) == kycRecords[user]

\* getKYCStatus returns null: no record comes with it
Null == [isSome |-> FALSE, value |-> KYCRecordEmpty]

\* getKYCStatus(user) when the read returns: the settled record, null when
\* its commitment is zero
getKYCStatus(user) ==
    LET record == orElse(kycRecordsGet(user), KYCRecordEmpty)
    IN  IF record.commitment = 0 THEN Null ELSE Some(record)

\* hasActiveKYC(user): record !== null && record.isActive
hasActiveKYC(user) ==
    LET record == getKYCStatus(user)
    IN  record # Null /\ record.value.isActive

\* the read of the settled state (account, actions, Merkle map) returns or
\* throws
Fetches == {"ok", "throws"}

\* getKYCStatus(user) with its catch: null also when the read throws
getKYCStatusResult(user, fetch) ==
    IF fetch = "throws" THEN Null ELSE getKYCStatus(user)

\* hasActiveKYC(user) over that result
hasActiveKYCResult(user, fetch) ==
    LET record == getKYCStatusResult(user, fetch)
    IN  record # Null /\ record.value.isActive

\* ------------------------------------------------- attester: issueCredential
\* the registry and the waiting proof, which the calls below leave alone
registry == <<admin, kycRecords, totalRegistrations, actions, actionCursor,
              blockchainLength, lastError, proof, other, ui>>

\* the SDK's calls are awaited one at a time
Idle == call = NoCall

\* the caller takes the outcome of the latest call
returnCall ==
    /\ ~Idle
    /\ call.op = "proveAge" => call.flow.pc = "done"
    /\ call' = NoCall
    /\ UNCHANGED registry

\* IdentityDocument.fullName, by its length (single-byte characters)
FullNameLengths == {0, 1, 2, 64, 128, 129}
\* IdentityDocument.dateOfBirth / expiresAt: numbers, YYYYMMDD or not
Dates == {-1234567, 0, 240101, 19900115, 20100115, 20240101, 20301231,
          99999999, 100000000}
\* IdentityDocument.nationality: empty, one letter, ISO codes, 65 letters
Nationalities ==
    {"", "U", "US", "NG",
     "AAAAAAAAAAAAAAAAAAAAAAAAAAAAAAAAAAAAAAAAAAAAAAAAAAAAAAAAAAAAAAAAA"}
\* IdentityDocument.documentType
DocumentTypes == {"passport", "national_id", "drivers_license", "visa"}

IdentityDocuments ==
    [fullName : FullNameLengths, dateOfBirth : Dates, nationality : Nationalities,
     documentType : DocumentTypes, expiresAt : Dates]

\* the number of decimal digits of a natural number
RECURSIVE DecimalDigits(_)
DecimalDigits(n) == IF n < 10 THEN 1 ELSE 1 + DecimalDigits(n \div 10)

\* String(n).length for an integer n: its digits, and the sign of a negative
StringLength(n) == IF n < 0 THEN 1 + DecimalDigits(-n) ELSE DecimalDigits(n)

\* C23 mutant: shorter dates pass
dateFormatOkAtMost8(n) == StringLength(n) <= 8

\* String(date).length !== 8 throws
dateFormatOk(n) == StringLength(n) = 8

\* validateDocument(document): the message of the first check that throws,
\* "" when none does
validateDocument(document) ==
    IF document.fullName < 2
    THEN "Invalid full name: must be at least 2 characters"
    ELSE IF document.fullName > 128
    THEN "Invalid full name: exceeds 128 characters"
    ELSE IF ~dateFormatOk(document.dateOfBirth)
    THEN "Invalid date of birth: must be in YYYYMMDD format"
    ELSE IF Len(document.nationality) < 2 \/ Len(document.nationality) > 64
    THEN "Invalid nationality code"
    ELSE IF document.documentType \notin {"passport", "national_id", "drivers_license"}
    THEN "Invalid document type"
    ELSE IF ~dateFormatOk(document.expiresAt)
    THEN "Invalid expiry date: must be in YYYYMMDD format"
    ELSE ""

\* UInt64.from(n) throws for a negative number (every sample is below 2^64)
UInt64FromThrows(n) == n < 0

\* the attester's key, and the hash of it a credential's issuer is known by
Attester == 1
IssuerHashOf(issuer) == issuer + 100

\* Credential.sign(issuerPrivateKey, {owner, data})
SignedCredential(owner, document) ==
    [owner |-> owner, data |-> document, issuer |-> Attester, signatureValid |-> TRUE]

\* NoahAttester.issueCredential(owner, document): validate, convert, sign
issueCredential(owner, document) ==
    LET message == validateDocument(document)
        error == IF message # "" THEN message
                 ELSE IF UInt64FromThrows(document.dateOfBirth)
                         \/ UInt64FromThrows(document.expiresAt)
                      THEN "UInt64: out of range"
                      ELSE ""
    IN  /\ Idle
        /\ call' = [op |-> "issueCredential", owner |-> owner, document |-> document,
                    error |-> error,
                    credentials |-> IF error = "" THEN {SignedCredential(owner, document)}
                                    ELSE {}]
        /\ UNCHANGED registry

\* ---------------------------------------------------------- presentations
\* credentials a holder may present: issued for well-formed documents, and
\* the same with the data changed after signing
PresentedDocuments ==
    [fullName : {64}, dateOfBirth : {19900115, 20100115, 20240101},
     nationality : {"US", "NG"}, documentType : {"passport"},
     expiresAt : {20240101, 20301231}]
StoredCredentials ==
    [owner : {1}, data : PresentedDocuments, issuer : {Attester},
     signatureValid : BOOLEAN]

\* the day a call is made on, YYYYMMDD
Today == {20240101, 20280115, 20301231, 20310101}
\* minAge arguments, in years
MinAges == {-1, 0, 18, 21}
\* excludedNationality arguments
ExcludedNationalities == {"US", "NG", "KP"}

\* the claims of a presentation request; a spec reads the ones it declares
Claims(currentDate, minAgeDelta, excludedNationality) ==
    [currentDate |-> currentDate, minAgeDelta |-> minAgeDelta,
     excludedNationality |-> excludedNationality]

\* C24 mutant: the expiry assertion is missing
AgeVerificationSpecNoExpiry(kyc, claims) ==
    kyc.dateOfBirth + claims.minAgeDelta <= claims.currentDate

\* AgeVerificationSpec: assert
AgeVerificationSpec(kyc, claims) ==
    /\ kyc.dateOfBirth + claims.minAgeDelta <= claims.currentDate
    /\ claims.currentDate <= kyc.expiresAt

\* NationalityExclusionSpec: assert
NationalityExclusionSpec(kyc, claims) ==
    /\ ~(kyc.nationality = claims.excludedNationality)
    /\ claims.currentDate <= kyc.expiresAt

\* C25 mutant: the nationality assertion is missing
FullKYCVerificationSpecNoNationality(kyc, claims) ==
    /\ kyc.dateOfBirth + claims.minAgeDelta <= claims.currentDate
    /\ claims.currentDate <= kyc.expiresAt

\* FullKYCVerificationSpec: assert
FullKYCVerificationSpec(kyc, claims) ==
    /\ kyc.dateOfBirth + claims.minAgeDelta <= claims.currentDate
    /\ ~(kyc.nationality = claims.excludedNationality)
    /\ claims.currentDate <= kyc.expiresAt

PresentationSpecs == {"AgeVerification", "NationalityExclusion", "FullKYCVerification"}

\* the assertions of the named spec
SpecAsserts(spec, kyc, claims) ==
    IF spec = "AgeVerification" THEN AgeVerificationSpec(kyc, claims)
    ELSE IF spec = "NationalityExclusion" THEN NationalityExclusionSpec(kyc, claims)
    ELSE FullKYCVerificationSpec(kyc, claims)

\* the presentation proof can be generated: the credential's signature
\* verifies and the spec's assertions hold
Provable(spec, credential, claims) ==
    credential.signatureValid /\ SpecAsserts(spec, credential.data, claims)

\* the presentation for a request: its public claims, and the spec's
\* outputClaim, Operation.issuer(kyc)
Presentation(spec, credential, claims) ==
    [spec |-> spec, claims |-> claims, outputClaim |-> IssuerHashOf(credential.issuer)]

\* Presentation.create / Presentation.finalize: the presentations they return
Created(spec, credential, claims) ==
    IF Provable(spec, credential, claims)
    THEN {Presentation(spec, credential, claims)} ELSE {}

\* Presentation.create(ownerKey, {request, credentials}) for a request of spec
createPresentation(spec, credential, claims) ==
    /\ Idle
    /\ call' = [op |-> "createPresentation", spec |-> spec, credential |-> credential,
                claims |-> claims,
                presentations |-> Created(spec, credential, claims)]
    /\ UNCHANGED registry

\* ----------------------------------------------------------------- proveAge
\* the message Presentation.prepare returns for the wallet to sign
PreparedMessage(credential, claims) == [credential |-> credential, claims |-> claims]

\* proveAge has returned or thrown
Done(error, presentations) ==
    [pc |-> "done", error |-> error, signatures |-> {}, presentations |-> presentations]

\* proveAge(credential, minAge) on day today: with the SDK's own key
\* (feePayerKey) the presentation is created at once, without it the request
\* is prepared for the wallet
proveAge(credential, minAge, today, feePayerKey) ==
    LET minAgeScaled == minAge * 10000
        claims == Claims(today, minAgeScaled, "")
        created == Created("AgeVerification", credential, claims)
        flow == IF UInt64FromThrows(minAgeScaled)
                THEN Done("UInt64: out of range", {})
                ELSE IF feePayerKey
                THEN Done(IF created = {} THEN "Program assertion failed" ELSE "", created)
                ELSE [pc |-> "prepared", error |-> "", signatures |-> {},
                      presentations |-> {}]
    IN  /\ Idle
        /\ call' = [op |-> "proveAge", credential |-> credential, claims |-> claims,
                    feePayerKey |-> feePayerKey, flow |-> flow]
        /\ UNCHANGED registry

\* what window.mina is: absent, a wallet that signs, a wallet whose user
\* rejects the request
Wallets == {"none", "signs", "rejects"}

\* C29 mutant: a missing wallet is not noticed
walletMissingIgnored(mina) == FALSE

\* if (!mina) throw new Error('No wallet found')
walletMissing(mina) == mina = "none"

\* mina.signFields({message: prepared.messageFields})
signFields(mina) ==
    LET message == PreparedMessage(call.credential, call.claims) IN
    /\ call.op = "proveAge"
    /\ call.flow.pc = "prepared"
    /\ call' = [call EXCEPT !.flow =
          IF walletMissing(mina) THEN Done("No wallet found", {})
          ELSE IF mina = "rejects" THEN Done("User rejected the request", {})
          ELSE [pc |-> "signed", error |-> "", signatures |-> {message},
                presentations |-> {}]]
    /\ UNCHANGED registry

\* Presentation.finalize(compiled, ownerSignature, prepared)
finalize ==
    LET created == Created("AgeVerification", call.credential, call.claims) IN
    /\ call.op = "proveAge"
    /\ call.flow.pc = "signed"
    /\ call' = [call EXCEPT !.flow =
          Done(IF created = {} THEN "Program assertion failed" ELSE "", created)]
    /\ UNCHANGED registry

\* ----------------------------------------------------------- verifyAgeProof
\* the presentations a verifier may be handed
Presentations ==
    {Presentation(spec, credential, Claims(today, minAge * 10000, excluded)) :
        spec \in {"AgeVerification", "NationalityExclusion"},
        credential \in {c \in StoredCredentials : c.data.dateOfBirth = 19900115},
        today \in Today, minAge \in {18, 21}, excluded \in {"", "KP"}}

\* C35 mutant: the date of the request is not part of what is verified
PresentationVerifiesAnyDate(spec, claims, presentation) ==
    /\ presentation.spec = spec
    /\ presentation.claims.minAgeDelta = claims.minAgeDelta

\* Presentation.verify(request, presentation): the proof was made by the
\* request's spec for the request's claims, its public input
PresentationVerifies(spec, claims, presentation) ==
    /\ presentation.spec = spec
    /\ presentation.claims = claims

\* verifyAgeProof(presentation, minAge) on day today: Presentation.verify
\* against the AgeVerification request rebuilt from today's date and minAge;
\* whatever is thrown on the way is caught and returned as the error
verifyAgeProof(presentation, minAge, today) ==
    LET minAgeDelta == minAge * 10000
        error == IF UInt64FromThrows(minAgeDelta) THEN "UInt64: out of range"
                 ELSE IF ~PresentationVerifies("AgeVerification",
                                               Claims(today, minAgeDelta, ""), presentation)
                      THEN "Invalid presentation"
                      ELSE ""
    IN  /\ Idle
        /\ call' = [op |-> "verifyAgeProof", presentation |-> presentation,
                    minAge |-> minAge, today |-> today,
                    valid |-> error = "", error |-> error,
                    issuerHash |-> IF error = "" THEN {presentation.outputClaim} ELSE {}]
        /\ UNCHANGED registry

\* ------------------------------------------------------------ query calls
\* sdk.getKYCStatus(user) and sdk.hasActiveKYC(user), awaited by the caller
queryKYCStatus(user, fetch) ==
    /\ Idle
    /\ call' = [op |-> "getKYCStatus", user |-> user, fetch |-> fetch,
                result |-> getKYCStatusResult(user, fetch),
                active |-> hasActiveKYCResult(user, fetch)]
    /\ UNCHANGED registry

\* calls of the SDK that do not go through the registry's methods
NextSDK ==
    \/ \E owner \in Keys, document \in IdentityDocuments : issueCredential(owner, document)
    \/ \E spec \in PresentationSpecs, credential \in StoredCredentials,
          today \in Today, minAge \in MinAges \ {-1}, excluded \in ExcludedNationalities :
          createPresentation(spec, credential, Claims(today, minAge * 10000, excluded))
    \/ \E credential \in StoredCredentials, minAge \in MinAges, today \in Today,
          feePayerKey \in BOOLEAN : proveAge(credential, minAge, today, feePayerKey)
    \/ \E mina \in Wallets : signFields(mina)
    \/ finalize
    \/ \E presentation \in Presentations, minAge \in MinAges, today \in Today :
          verifyAgeProof(presentation, minAge, today)
    \/ \E user \in AllKeys, fetch \in Fetches : queryKYCStatus(user, fetch)
    \/ returnCall

SpecSDK == Init /\ [][NextSDK]_vars

\* ------------------------------------------------------- the useNoahSDK hook
\* the hook as App.tsx drives it: the button of the current step, enabled
\* while nothing is loading; the wallet button; the wallet's accountsChanged
\* events; and the asynchronous calls returning
chain == <<admin, kycRecords, totalRegistrations, actions, actionCursor,
           blockchainLength, lastError>>
aside == <<proof, call, other>>

STEPS == <<"scan", "witness", "proof", "submit", "verified">>
StepIndex(id) == (CHOOSE i \in DOMAIN STEPS : STEPS[i] = id) - 1

\* networkMode: 'local' has the fee payer's key, 'devnet' without
\* VITE_FEE_PAYER_KEY signs through the wallet
NetworkModes == {"local", "wallet"}

\* localBlockchain.testAccounts[0], the fee payer of a local SDK object
FeePayer == 1

\* what requestAccounts / accountsChanged deliver: no wallet installed, an
\* empty list, or the wallet's account
NoWallet == -1
Accounts == AllKeys \cup {NoWallet}

\* kycRecord as the hook shows it
ShownRecord(isActive, address) ==
    [shown |-> TRUE, isActive |-> isActive, address |-> address]

\* setKycRecord({... isActive: true ...}); setCurrentStep('verified')
ShowVerified(h, address) ==
    [h EXCEPT !.kycRecord = ShownRecord(TRUE, address), !.currentStep = "verified"]

\* finally { setLoading(false) }: the asynchronous action is over
Finished(h) == [h EXCEPT !.loading = FALSE, !.task = NoTask]

\* catch (err) { setError(...) } finally { setLoading(false) }
Failing(h, message) == Finished([h EXCEPT !.error = message])

\* an asynchronous action starts: setLoading(true); setError(null)
Starting(h, op, pc) ==
    [h EXCEPT !.loading = TRUE, !.error = "",
              !.task = [NoTask EXCEPT !.op = op, !.pc = pc, !.sdk = h.sdk,
                                      !.address = h.wallet.address]]

\* connectWallet(): setLoading(true), then await initSDK()
connectWallet(mode) ==
    /\ ~ui.wallet.connected
    /\ ~ui.loading
    /\ ui' = [Starting(ui, "connectWallet", "initSDK") EXCEPT !.task.sdk = mode]
    /\ UNCHANGED <<chain, aside>>

\* initSDK() is over. In local mode NoahSDK.init starts a new local ledger
\* and deploy() puts a new registry on it; then the wallet state is set and
\* the KYC status guard asks hasActiveKYC(feePayer). A failure sets error.
initSDKReturns(ok) ==
    LET local == ui.task.sdk = "local"
        feePayerAddress == IF local THEN FeePayer ELSE Empty
        ready == [ui EXCEPT !.sdk = ui.task.sdk,
                            !.userKey = feePayerAddress,
                            !.wallet = [connected |-> TRUE, address |-> feePayerAddress],
                            !.task.pc = "requestAccounts"]
        hasKYC == orElse(Genesis.kycRecords[FeePayer], KYCRecordEmpty).isActive
    IN  /\ ui.task.op = "connectWallet"
        /\ ui.task.pc = "initSDK"
        /\ IF ok /\ local
           THEN /\ admin' = Empty
                /\ kycRecords' = Genesis.kycRecords
                /\ totalRegistrations' = Genesis.totalRegistrations
                /\ actions' = <<>>
                /\ actionCursor' = 0
                /\ blockchainLength' = 0
                /\ lastError' = NoError
                /\ ui' = IF hasKYC THEN ShowVerified(ready, feePayerAddress) ELSE ready
           ELSE /\ UNCHANGED chain
                /\ ui' = IF ok THEN ready
                         ELSE [ui EXCEPT !.error = "SDK initialization failed",
                                         !.task.pc = "requestAccounts"]
        /\ UNCHANGED aside

\* connectWallet after initSDK: window.mina, requestAccounts, setWallet, and
\* the hasActiveKYC check of the connected address when there is an SDK object
requestAccountsReturns(account, fetch) ==
    LET connected == [ui EXCEPT !.wallet = [connected |-> TRUE, address |-> account]]
    IN  /\ ui.task.op = "connectWallet"
        /\ ui.task.pc = "requestAccounts"
        /\ ui' = IF account \notin Keys THEN Finished(ui)
                 ELSE IF ui.sdk # "none" /\ hasActiveKYCResult(account, fetch)
                 THEN Finished(ShowVerified(connected, account))
                 ELSE Finished(connected)
        /\ UNCHANGED <<chain, aside>>

\* what disconnectWallet sets; loading, error and the calls in flight are
\* not touched
Disconnected(h) ==
    [h EXCEPT !.wallet = [connected |-> FALSE, address |-> Empty],
              !.currentStep = "scan", !.mrzData = FALSE, !.credential = FALSE,
              !.presentation = FALSE, !.kycRecord = NoKycRecord,
              !.sdk = "none", !.userKey = Empty]

\* the wallet button of a connected wallet
disconnectWallet ==
    /\ ui.wallet.connected
    /\ ui' = Disconnected(ui)
    /\ UNCHANGED <<chain, aside>>

\* handleAccountsChanged, a new address: setWallet, the resets, and the
\* getKYCStatus of the new address started when there is an SDK object
Switched(h, account) ==
    [h EXCEPT !.wallet.address = account, !.currentStep = "scan",
              !.kycRecord = NoKycRecord, !.mrzData = FALSE,
              !.credential = FALSE, !.presentation = FALSE]

\* mina.on('accountsChanged', handleAccountsChanged), registered while the
\* wallet is connected
handleAccountsChanged(account) ==
    /\ ui.wallet.connected
    /\ account # ui.wallet.address
    /\ ui' = IF account = Empty THEN Disconnected(ui)
             ELSE [Switched(ui, account) EXCEPT
                      !.checks = IF ui.sdk # "none" THEN @ \cup {account} ELSE @]
    /\ UNCHANGED <<chain, aside>>

\* the getKYCStatus that handleAccountsChanged awaits returns: an active
\* record is shown and the step set to 'verified'; without an SDK object by
\* then the call throws and the catch logs it
getKYCStatusReturns(account, fetch) ==
    LET record == getKYCStatusResult(account, fetch)
        done == [ui EXCEPT !.checks = @ \ {account}]
    IN  /\ account \in ui.checks
        /\ ui' = IF ui.sdk # "none" /\ record # Null /\ record.value.isActive
                 THEN ShowVerified(done, account)
                 ELSE done
        /\ UNCHANGED <<chain, aside>>

\* the error banner's close button: setError(null)
setError ==
    /\ ui.error # ""
    /\ ui' = [ui EXCEPT !.error = ""]
    /\ UNCHANGED <<chain, aside>>

\* a step's button is shown to a connected wallet at that step
AtStep(id) == ui.wallet.connected /\ ui.currentStep = id

\* onMRZScanned(data): refused for a verified account, else the data is kept
\* and the step is 'witness'
onMRZScanned ==
    /\ AtStep("scan")
    /\ ~(ui.kycRecord.shown /\ ui.kycRecord.isActive)
    /\ ui' = [ui EXCEPT !.mrzData = TRUE, !.currentStep = "witness"]
    /\ UNCHANGED <<chain, aside>>

\* submitForAttestation(): returns at once without data or SDK object
submitForAttestation ==
    /\ AtStep("witness")
    /\ ~ui.loading
    /\ ui.mrzData /\ ui.sdk # "none"
    /\ ui' = Starting(ui, "submitForAttestation", "issueCredential")
    /\ UNCHANGED <<chain, aside>>

\* sdk.issueCredential returned the credential or threw; without a user key
\* and a wallet address the call is not made
issueCredentialReturns(ok) ==
    /\ ui.task.op = "submitForAttestation"
    /\ ui' = IF ok /\ (ui.userKey # Empty \/ ui.task.address # Empty)
             THEN Finished([ui EXCEPT !.credential = TRUE, !.currentStep = "proof"])
             ELSE Failing(ui, "Attestation failed")
    /\ UNCHANGED <<chain, aside>>

\* generateProof(): returns at once without credential or SDK object
generateProof ==
    /\ AtStep("proof")
    /\ ~ui.loading
    /\ ui.credential /\ ui.sdk # "none"
    /\ ui' = Starting(ui, "generateProof", "proveAge")
    /\ UNCHANGED <<chain, aside>>

\* sdk.proveAge(credential, 18) returned the presentation or threw
proveAgeReturns(ok) ==
    /\ ui.task.op = "generateProof"
    /\ ui' = IF ok
             THEN Finished([ui EXCEPT !.presentation = TRUE, !.currentStep = "submit"])
             ELSE Failing(ui, "Proof generation failed")
    /\ UNCHANGED <<chain, aside>>


\* ----------------------------------------------------------- registerOnChain
\* registerOnChain(): returns at once without SDK object or data
registerOnChain ==
    /\ AtStep("submit")
    /\ ~ui.loading
    /\ ui.sdk # "none" /\ ui.mrzData
    /\ ui' = Starting(ui, "registerOnChain", "registerKYC")
    /\ UNCHANGED <<chain, aside>>

\* C37 mutant: a result without success is not thrown
resultThrowsNever(success) == FALSE

\* if (!result.success) throw new Error(result.error)
resultThrows(success) == ~success

\* sdk.getSender(): the fee payer's key, or the wallet's account
getSender ==
    IF ui.task.sdk = "local" THEN FeePayer
    ELSE IF ui.wallet.address # Empty THEN ui.wallet.address
    ELSE ui.task.address

\* sdk.registerKYC(commitment, issuerHash) returned: the transaction was sent
\* by getSender(), or it failed and nothing reached the registry
registerKYCReturns(sent) ==
    LET sender == getSender
        success == sent /\ sender # Empty
    IN  /\ ui.task.op = "registerOnChain"
        /\ ui.task.pc = "registerKYC"
        /\ IF success THEN registerKYC(sender, 1, 1) ELSE UNCHANGED chain
        /\ ui' = IF resultThrows(success) THEN Failing(ui, "Registration failed")
                 ELSE [ui EXCEPT !.task.pc = "waitRegistered",
                                 !.task.registered = success,
                                 !.task.sender = sender]
        /\ UNCHANGED aside

\* pendingTx.wait(), or the fixed three minutes of the wallet mode, is over
pendingTxWaited ==
    /\ ui.task.op = "registerOnChain"
    /\ ui.task.pc \in {"waitRegistered", "waitSettled"}
    /\ ui' = [ui EXCEPT !.task.pc = IF @ = "waitRegistered" THEN "settleState"
                                    ELSE "hasActiveKYC"]
    /\ UNCHANGED <<chain, aside>>

\* sdk.settleState() returned
settleStateReturns(sent) ==
    /\ ui.task.op = "registerOnChain"
    /\ ui.task.pc = "settleState"
    /\ IF sent THEN settleState ELSE UNCHANGED chain
    /\ ui' = IF resultThrows(sent) THEN Failing(ui, "Registration failed: Settlement failed")
             ELSE [ui EXCEPT !.task.pc = "waitSettled", !.task.settled = sent]
    /\ UNCHANGED aside

\* sdk.hasActiveKYC(userAddress) returned: the record is shown with isActive
\* as returned, and the step is 'verified'
hasActiveKYCReturns(fetch) ==
    LET userAddress == IF ui.userKey # Empty THEN ui.userKey ELSE ui.task.address
        hasKYC == userAddress # Empty /\ hasActiveKYCResult(userAddress, fetch)
    IN  /\ ui.task.op = "registerOnChain"
        /\ ui.task.pc = "hasActiveKYC"
        /\ ui' = Finished([ui EXCEPT !.kycRecord = ShownRecord(hasKYC, ui.task.address),
                                     !.currentStep = "verified"])
        /\ UNCHANGED <<chain, aside>>

\* the user, the wallet and the calls in flight
NextUI ==
    \/ \E mode \in NetworkModes : connectWallet(mode)
    \/ \E ok \in BOOLEAN : initSDKReturns(ok)
    \/ \E account \in Accounts, fetch \in Fetches : requestAccountsReturns(account, fetch)
    \/ disconnectWallet
    \/ \E account \in AllKeys : handleAccountsChanged(account)
    \/ \E account \in Keys, fetch \in Fetches : getKYCStatusReturns(account, fetch)
    \/ setError
    \/ onMRZScanned
    \/ submitForAttestation
    \/ \E ok \in BOOLEAN : issueCredentialReturns(ok)
    \/ generateProof
    \/ \E ok \in BOOLEAN : proveAgeReturns(ok)
    \/ registerOnChain
    \/ \E sent \in BOOLEAN : registerKYCReturns(sent)
    \/ pendingTxWaited
    \/ \E sent \in BOOLEAN : settleStateReturns(sent)
    \/ \E fetch \in Fetches : hasActiveKYCReturns(fetch)

SpecUI == Init /\ [][NextUI]_vars

\* ------------------------------------------------------------------ claims
\* the settled record of key k, empty when k was never written
Record(k) == orElse(kycRecords[k], KYCRecordEmpty)

\* the account update touches key k's record
Touches(au, k) ==
    \E j \in DOMAIN au.updates :
        au.updates[j].field = "kycRecords" /\ au.updates[j].key = k

\* C1: the settled record of a key K changes only in a step that settles an
\* account update on K made by registerKYC signed by K or by revokeKYC signed
\* by the admin stored at the time of the call; setAdmin, transferOwnership,
\* a block and a settle with nothing pending change no record.
C1_RecordChangesOnlyByHolderOrAdmin ==
    [][\A k \in AllKeys :
         kycRecords'[k] # kycRecords[k] =>
           \E n \in (actionCursor + 1)..actionCursor' :
              /\ Touches(actions[n], k)
              /\ \/ actions[n].op = "registerKYC" /\ actions[n].sender = k
                 \/ /\ actions[n].op = "revokeKYC"
                    /\ actions[n].sender = actions[n].adminRead]_vars

\* C1 witness: a record was registered and then revoked, both settled
C1_Witness ==
    \E k \in Keys :
        /\ kycRecords[k].isSome /\ ~Record(k).isActive
        /\ actionCursor = 2

\* C2: with a non-empty stored admin every setAdmin call fails with
\* AlreadySetError and leaves the stored admin unchanged.
C2_SetAdminOnlyOnce ==
    [][\A a \in AllKeys :
         (admin # Empty /\ setAdmin(a)) =>
            /\ lastError' = Failed("setAdmin", "AlreadySetError")
            /\ admin' = admin]_vars

\* C3: transferOwnership by the stored admin succeeds and stores newAdmin; by
\* any other sender it fails and leaves the admin, the records, the counter
\* and the action history unchanged.
C3_TransferOnlyByAdmin ==
    [][\A s \in Keys, a \in AllKeys :
         transferOwnership(s, a) =>
            IF s = admin
            THEN lastError' = NoError /\ admin' = a
            ELSE /\ lastError' = Failed("transferOwnership", "AuthorizationError")
                 /\ admin' = admin
                 /\ kycRecords' = kycRecords
                 /\ totalRegistrations' = totalRegistrations
                 /\ actions' = actions]_vars

\* C3 witness: a transfer was rejected while an admin is stored
C3_Witness ==
    /\ lastError = Failed("transferOwnership", "AuthorizationError")
    /\ admin # Empty

\* C4: revokeKYC by a sender other than the stored admin fails with
\* AuthorizationError and appends nothing to the action history, so no
\* settlement has anything of that call to fold.
C4_RevokeByNonAdminRejected ==
    [][\A s \in Keys, u \in AllKeys :
         (s # admin /\ revokeKYC(s, u)) =>
            /\ lastError' = Failed("revokeKYC", "AuthorizationError")
            /\ actions' = actions
            /\ kycRecords' = kycRecords]_vars

\* C4 witness: a revoke was rejected while an active record and an admin exist
C4_Witness ==
    /\ lastError = Failed("revokeKYC", "AuthorizationError")
    /\ admin # Empty
    /\ \E k \in Keys : Record(k).isActive

\* C5: revokeKYC by the admin fails with NotActiveError and appends nothing
\* whenever the user's settled record is not active (never registered, or
\* already revoked).
C5_RevokeInactiveRejected ==
    [][\A s \in Keys, u \in AllKeys :
         (s = admin /\ ~Record(u).isActive /\ revokeKYC(s, u)) =>
            /\ lastError' = Failed("revokeKYC", "NotActiveError")
            /\ actions' = actions]_vars

\* C5 witness: a revoke was rejected while a revoked record is settled
C5_Witness ==
    /\ lastError = Failed("revokeKYC", "NotActiveError")
    /\ \E k \in Keys : kycRecords[k].isSome /\ ~Record(k).isActive

\* the state the settlement has reached before it folds actions[n]
Before(n) == Replay(Settled, SubSeq(actions, actionCursor + 1, n - 1))

\* the key of the record an account update of registerKYC / revokeKYC writes
Target(au) == au.updates[1].key

\* C6: when a settlement applies a revokeKYC(user) account update, the state
\* after it differs from the state before it only in user's isActive, now
\* false: commitment, issuerHash and registeredAt are those read by the call,
\* totalRegistrations and every other record are as before; and the
\* settlement commits exactly the fold of the pending account updates.
C6_RevokeChangesOnlyIsActive ==
    [][actionCursor' # actionCursor =>
         /\ [kycRecords |-> kycRecords', totalRegistrations |-> totalRegistrations']
               = Replay(Settled, Pending)
         /\ \A n \in (actionCursor + 1)..actionCursor' :
              LET au == actions[n]
                  pre == Before(n)
                  post == ApplyAccountUpdate(pre, au)
                  old == au.updates[1].from.value
              IN  (au.op = "revokeKYC" /\ ValidUpdate(pre, au)) =>
                    /\ pre.kycRecords[Target(au)] = Some(old)
                    /\ old.isActive
                    /\ post.kycRecords[Target(au)]
                          = Some([old EXCEPT !.isActive = FALSE])
                    /\ \A k \in AllKeys \ {Target(au)} :
                          post.kycRecords[k] = pre.kycRecords[k]
                    /\ post.totalRegistrations = pre.totalRegistrations]_vars

\* C6 witness: a record registered at height 1 was revoked, and that settled
C6_Witness ==
    /\ actionCursor = 2
    /\ actions[2].op = "revokeKYC"
    /\ kycRecords[Target(actions[2])] = Some(actions[2].updates[1].to)
    /\ Record(Target(actions[2])).registeredAt = 1

\* C7: registerKYC with a zero commitment or a zero issuerHash fails with
\* ZeroCommitmentError and appends nothing; records and counter are unchanged.
C7_RegisterZeroRejected ==
    [][\A s \in Keys, c \in Commitments, i \in IssuerHashes :
         ((c = 0 \/ i = 0) /\ registerKYC(s, c, i)) =>
            /\ lastError' = Failed("registerKYC", "ZeroCommitmentError")
            /\ actions' = actions
            /\ kycRecords' = kycRecords
            /\ totalRegistrations' = totalRegistrations]_vars

\* C7 witness: a registration was rejected for a zero argument
C7_Witness == lastError = Failed("registerKYC", "ZeroCommitmentError")

\* C8: a successful registerKYC(commitment, issuerHash) appends one account
\* update whose first action updates the sender's key from the sender's
\* settled record to the record (commitment, issuerHash, registeredAt = the
\* ledger height of the call, isActive = true).
C8_RegisterAppendsUpdate ==
    [][\A s \in Keys, c \in Commitments, i \in IssuerHashes :
         (c # 0 /\ i # 0 /\ registerKYC(s, c, i)) =>
            /\ lastError' = NoError
            /\ Len(actions') = Len(actions) + 1
            /\ SubSeq(actions', 1, Len(actions)) = actions
            /\ LET au == actions'[Len(actions')] IN
               /\ au.op = "registerKYC" /\ au.sender = s
               /\ au.updates[1] =
                    [field |-> "kycRecords", key |-> s, from |-> kycRecords[s],
                     to |-> [commitment |-> c, issuerHash |-> i,
                             registeredAt |-> blockchainLength,
                             isActive |-> TRUE]]]_vars

\* C8 witness: a settled holder registered again at height 1 with commitment 2
C8_Witness ==
    /\ actions # <<>>
    /\ LET au == actions[Len(actions)] IN
       /\ au.op = "registerKYC"
       /\ au.updates[1].from.isSome
       /\ au.updates[1].to.commitment = 2
       /\ au.updates[1].to.registeredAt = 1

\* the keys whose settled commitment is non-zero
Registered == {k \in AllKeys : Record(k).commitment # 0}

\* C9: the settled totalRegistrations equals the number of keys whose settled
\* commitment is non-zero.
C9_TotalCountsRegisteredKeys ==
    orElse(totalRegistrations, 0) = Cardinality(Registered)

\* C9 witness: two account updates are settled, one key is registered and it
\* is written a second time (re-registered or revoked): the counter is 1
C9_Witness ==
    /\ actionCursor = 2
    /\ totalRegistrations = Some(1)
    /\ actions[1].updates[1].key = actions[2].updates[1].key
    /\ kycRecords[Target(actions[2])] = Some(actions[2].updates[1].to)

\* the pending account updates write pairwise different keys
PendingKeysDistinct ==
    \A m, n \in (actionCursor + 1)..Len(actions) :
        m # n => Target(actions[m]) # Target(actions[n])

\* C10: when the pending account updates are against pairwise different keys,
\* the settlement makes every one of them take effect.
C10_DifferentKeysAllSettle ==
    [][(actionCursor' # actionCursor /\ PendingKeysDistinct) =>
         \A n \in (actionCursor + 1)..actionCursor' :
            kycRecords'[Target(actions[n])] = Some(actions[n].updates[1].to)]_vars

\* two pending account updates write the same key and carry the same value
\* read at call time
PendingSameKeySameFrom(m, n) ==
    /\ Target(actions[m]) = Target(actions[n])
    /\ actions[m].updates[1].from = actions[n].updates[1].from

\* C11: when two pending account updates are against the same key and carry
\* the same expected old value, settling the batch fails with
\* SettlementConflictError and the second one's value does not become the
\* settled record.
C11_SameKeyConflictFailsSettlement ==
    [][\A m, n \in (actionCursor + 1)..Len(actions) :
         (m < n /\ PendingSameKeySameFrom(m, n) /\ settleState) =>
            /\ lastError' = Failed("settleState", "SettlementConflictError")
            /\ kycRecords'[Target(actions[n])] # Some(actions[n].updates[1].to)]_vars

\* C12: getKYCStatus and hasActiveKYC answer from the settled state only: a
\* successful registerKYC or revokeKYC, and every other step that is not an
\* applied settlement, leaves the answers for every user as they were; an
\* answer changes only in a step that moves the committed cursor.
C12_ReadersSeeSettledStateOnly ==
    [][\A u \in AllKeys :
         (actions' # actions \/ actionCursor' = actionCursor) =>
            /\ getKYCStatus(u)' = getKYCStatus(u)
            /\ hasActiveKYC(u)' = hasActiveKYC(u)]_vars

\* C12 witness: a user's registration is settled and the revocation of that
\* user is pending: the queries still report the active record
C12_Witness ==
    \E n \in (actionCursor + 1)..Len(actions) :
        /\ actions[n].op = "revokeKYC"
        /\ getKYCStatus(Target(actions[n])) = Some(actions[n].updates[1].from.value)
        /\ hasActiveKYC(Target(actions[n]))

\* pending account update n shares no leaf with another pending one: no other
\* one writes the same key, and two registrations both write totalRegistrations
NoConflictingPending(n) ==
    \A m \in ((actionCursor + 1)..Len(actions)) \ {n} :
        /\ Target(actions[m]) # Target(actions[n])
        /\ ~(actions[m].op = "registerKYC" /\ actions[n].op = "registerKYC")

\* C13: a settlement that folds a registerKYC(c, i) of holder H with no
\* conflicting pending account update makes getKYCStatus(H) return the record
\* with commitment c, issuerHash i and isActive true; a settlement that folds a
\* revokeKYC(H) with no conflicting pending account update makes
\* getKYCStatus(H) return the record it returned before with isActive false,
\* commitment, issuerHash and registeredAt unchanged.
C13_RegisterRevokeRoundTrip ==
    [][\A n \in (actionCursor + 1)..actionCursor' :
         NoConflictingPending(n) =>
            LET au == actions[n]
                H == Target(au)
                before == getKYCStatus(H)
                after == getKYCStatus(H)'
            IN  /\ au.op = "registerKYC" =>
                      /\ H = au.sender
                      /\ after = Some(au.updates[1].to)
                      /\ after.value.isActive
                /\ au.op = "revokeKYC" =>
                      /\ before # Null /\ before.value.isActive
                      /\ after = Some([before.value EXCEPT !.isActive = FALSE])]_vars

\* C13 witness: holder H registered and that was settled, then the admin
\* revoked H and that was settled: the query returns H's registered record
\* with isActive false
C13_Witness ==
    /\ actionCursor = 2
    /\ actions[1].op = "registerKYC"
    /\ actions[2].op = "revokeKYC"
    /\ Target(actions[2]) = actions[1].sender
    /\ getKYCStatus(actions[1].sender)
          = Some([actions[1].updates[1].to EXCEPT !.isActive = FALSE])

\* C14: a settleState with no pending account update succeeds and leaves the
\* settled records, totalRegistrations and the committed cursor unchanged; and
\* after every settleState nothing is pending, so that a second settleState
\* right after it commits the state the first one committed.
C14_SettleEmptyIsNoOp ==
    [][settleState =>
         /\ lastError' = NoError
         /\ actionCursor = Len(actions) =>
               UNCHANGED <<kycRecords, totalRegistrations, actionCursor>>
         /\ actionCursor' = Len(actions')
         /\ Replay(Settled', Pending') = Settled']_vars

\* C14 witness: a settlement has committed records and nothing is pending: the
\* next settleState finds an empty log
C14_Witness ==
    /\ Ready
    /\ actionCursor = Len(actions)
    /\ actionCursor > 0
    /\ Registered # {}

\* the waiting settlement proof was built against commitments other than the
\* ones stored now
StaleProof ==
    proof.waiting /\ proof.publicInput # StateCommitments(Settled, actionCursor)

AppliedBySettlement(n) == ValidUpdate(Before(n), actions[n])

\* C16: after a settleState over a batch of pending account updates, either
\* every account update of the batch has been applied and the cursor has
\* advanced, or the settle failed and the settled records, totalRegistrations
\* and the cursor are those before the call.
C16_SettleAllOrNothing ==
    [][(actionCursor < Len(actions) /\ settleState) =>
         \/ /\ \A n \in (actionCursor + 1)..Len(actions) : AppliedBySettlement(n)
            /\ actionCursor' > actionCursor
            /\ lastError' = NoError
         \/ /\ lastError' # NoError
            /\ UNCHANGED <<kycRecords, totalRegistrations, actionCursor>>]_vars

\* a settlement is applied: settleState, or the settle of an accepted proof
SettlementApplied == settleState \/ (settle /\ lastError' = NoError)

\* C17 as stated: every account update appended before a successful
\* settlement is consumed by it, none is left for a later settlement.
C17_ConsumedByFirstSettlement ==
    [][SettlementApplied => actionCursor' = Len(actions)]_vars

\* C17 amended: a settlement proof covers the account updates dispatched
\* when it was created, and a successful settlement consumes, in append
\* order, exactly the account updates between the committed cursor and the
\* end of its proof; the cursor never moves back, so no account update is
\* consumed twice, and the settled state changes with the cursor only. An
\* account update appended after the proof was created is left for a later
\* settlement.
C17_ConsumedOnceInOrder ==
    [][/\ actionCursor' >= actionCursor
       /\ actionCursor' <= Len(actions)
       /\ actionCursor' = actionCursor => Settled' = Settled
       /\ actionCursor' # actionCursor =>
             /\ Settled' = Replay(Settled, SubSeq(actions, actionCursor + 1, actionCursor'))
             /\ ~proof'.waiting \/ UNCHANGED <<proof, call>>
             /\ UNCHANGED proof => actionCursor' = Len(actions)
             /\ proof' # proof => actionCursor' = proof.publicOutput.actionState
       /\ (proof'.waiting /\ ~proof.waiting) =>
             /\ proof'.publicInput.actionState = actionCursor
             /\ proof'.publicOutput.actionState = Len(actions)]_vars

\* C17 witness: the waiting proof will be accepted, it consumes an account
\* update, and an account update appended after its creation stays pending
C17_Witness ==
    /\ proof.waiting
    /\ Ready
    /\ proofAccepted(proof)
    /\ actionCursor < proof.publicOutput.actionState
    /\ proof.publicOutput.actionState < Len(actions)

\* the committed state is the fold, from the empty commitments and in order,
\* of the action history up to the committed cursor
CommittedIsReplayOfPrefix ==
    /\ actionCursor \in 0..Len(actions)
    /\ Settled = Replay(Genesis, SubSeq(actions, 1, actionCursor))

\* C18: in every reachable state the settled records and totalRegistrations
\* equal the replay, from the empty state and in order, of the action history
\* up to the committed cursor; and the cursor never decreases.
C18_CommittedIsReplayOfHistory ==
    []CommittedIsReplayOfPrefix /\ [][actionCursor' >= actionCursor]_vars

\* C18 witness: the committed cursor stands inside the action history, after a
\* registration that took effect and before an account update still pending
C18_Witness ==
    /\ 0 < actionCursor
    /\ actionCursor < Len(actions)
    /\ Registered # {}

\* C19: the settled isActive of a key changes from true to false only in a
\* settlement that applies a revokeKYC of that key signed by the admin stored
\* when it was called, and from false to true only in a settlement that
\* applies a registerKYC signed by that key's holder, after which the settled
\* commitment and issuerHash are those the registration submitted.
C19_IsActiveChangesByRevokeOrRegister ==
    [][\A k \in AllKeys :
         /\ (Record(k).isActive /\ ~Record(k)'.isActive) =>
               \E n \in (actionCursor + 1)..actionCursor' :
                  /\ actions[n].op = "revokeKYC"
                  /\ Target(actions[n]) = k
                  /\ actions[n].sender = actions[n].adminRead
                  /\ AppliedBySettlement(n)
         /\ (~Record(k).isActive /\ Record(k)'.isActive) =>
               \E n \in (actionCursor + 1)..actionCursor' :
                  /\ actions[n].op = "registerKYC"
                  /\ Target(actions[n]) = k
                  /\ actions[n].sender = k
                  /\ AppliedBySettlement(n)
                  /\ Record(k)'.commitment = actions[n].updates[1].to.commitment
                  /\ Record(k)'.issuerHash = actions[n].updates[1].to.issuerHash]_vars

\* C19 witness: a key was registered with commitment 2 and then revoked by
\* the stored admin, each settled: isActive went from false to true and back
C19_Witness ==
    /\ actionCursor = Len(actions)
    /\ Len(actions) = 2
    /\ actions[1].op = "registerKYC"
    /\ actions[2].op = "revokeKYC"
    /\ Target(actions[2]) = actions[1].sender
    /\ ~Record(actions[1].sender).isActive
    /\ Record(actions[1].sender).commitment = 2
    /\ actions[2].sender = admin

\* a registerKYC for key k has been settled: a settlement consumed it and
\* applied it (its preconditions held where the fold met it)
RegisterSettled(k) ==
    \E n \in 1..actionCursor :
        /\ actions[n].op = "registerKYC"
        /\ Target(actions[n]) = k
        /\ ValidUpdate(Replay(Genesis, SubSeq(actions, 1, n - 1)), actions[n])

C21_ActiveOnlyAfterAdminSet ==
    [][/\ admin = Empty => actions' = actions
       /\ admin # Empty => admin' # Empty]_vars

\* the account update the latest accepted call appended
LastAppended == actions'[Len(actions')]

\* an account update writes totalRegistrations
WritesTotal(au) ==
    \E j \in DOMAIN au.updates : au.updates[j].field = "totalRegistrations"

\* C22 as stated: a registerKYC by a holder whose prior commitment is not
\* zero appends no action on totalRegistrations.
C22_ReRegistrationAppendsNoTotal ==
    [][\A s \in Keys, c \in Commitments, i \in IssuerHashes :
         (Record(s).commitment # 0 /\ actions' # actions /\ registerKYC(s, c, i)) =>
            ~WritesTotal(LastAppended)]_vars

\* C22 amended: every accepted registerKYC appends an update of
\* totalRegistrations whose expected old value is the counter it read; the
\* new value is the old one plus one when the caller's prior commitment is
\* zero and the old one itself when it is not.
C22_TotalUpdateValueIsConditional ==
    [][\A s \in Keys, c \in Commitments, i \in IssuerHashes :
         (actions' # actions /\ registerKYC(s, c, i)) =>
            LET u == LastAppended.updates[2]
                total == orElse(totalRegistrations, 0)
            IN  /\ Len(LastAppended.updates) = 2
                /\ u.field = "totalRegistrations"
                /\ u.from = totalRegistrations
                /\ u.to = IF Record(s).commitment = 0 THEN total + 1 ELSE total]_vars

\* C22 witness: the account update of a re-registration is in the history:
\* it read a record, and its counter update writes the value it read
C22_Witness ==
    \E n \in 1..Len(actions) :
        /\ actions[n].op = "registerKYC"
        /\ actions[n].updates[1].from.isSome
        /\ actions[n].updates[2].from = Some(actions[n].updates[2].to)

\* a date of exactly 8 digits
EightDigits(n) == 10000000 <= n /\ n <= 99999999

\* the document a validation error is claimed for
Malformed(document) ==
    \/ document.fullName < 2 \/ document.fullName > 128
    \/ ~EightDigits(document.dateOfBirth)
    \/ ~EightDigits(document.expiresAt)
    \/ Len(document.nationality) < 2 \/ Len(document.nationality) > 64
    \/ document.documentType \notin {"passport", "national_id", "drivers_license"}

OldEnoughAndUnexpired(kyc, claims) ==
    /\ kyc.dateOfBirth + claims.minAgeDelta <= claims.currentDate
    /\ ~(kyc.expiresAt < claims.currentDate)

\* a finished request for an AgeVerification presentation of a validly
\* signed credential: its presentations
AgePresentationsOf(c) ==
    IF c.op = "createPresentation" THEN c.presentations ELSE c.flow.presentations

AgeCreationFinished(c) ==
    \/ c.op = "createPresentation" /\ c.spec = "AgeVerification"
                                   /\ c.credential.signatureValid
    \/ c.op = "proveAge" /\ c.flow.pc = "done" /\ c.credential.signatureValid
                         /\ c.claims.minAgeDelta >= 0
                         /\ c.flow.error \notin {"No wallet found", "User rejected the request"}

\* C24: for a validly signed credential, an AgeVerification presentation with
\* claims (currentDate, minAgeDelta = minAge*10000) is created exactly when
\* dateOfBirth + minAgeDelta <= currentDate and currentDate <= expiresAt; for
\* an under-age or expired credential nothing is created and the call ends
\* with an error; a created presentation carries the issuer hash, and
\* verifying an AgeVerification presentation against its own date and minAge
\* is valid and returns that issuer hash
C24_AgePresentationIffOldEnoughAndUnexpired ==
    /\ AgeCreationFinished(call) =>
          /\ AgePresentationsOf(call) # {}
                <=> OldEnoughAndUnexpired(call.credential.data, call.claims)
          /\ \A p \in AgePresentationsOf(call) :
                /\ p.outputClaim = IssuerHashOf(call.credential.issuer)
                /\ p.claims = call.claims
          /\ call.op = "proveAge" => (call.flow.error = "" <=> call.flow.presentations # {})
    /\ (/\ call.op = "verifyAgeProof"
        /\ call.presentation.spec = "AgeVerification"
        /\ call.minAge >= 0
        /\ call.presentation.claims = Claims(call.today, call.minAge * 10000, ""))
       => /\ call.valid
          /\ call.issuerHash = {call.presentation.outputClaim}

\* C24 witness: proveAge for an under-age holder (born 2010, 18 asked on
\* 2024-01-01, credential valid until 2030) has failed without a presentation
C24_Witness ==
    /\ call.op = "proveAge"
    /\ call.flow.pc = "done"
    /\ call.credential.signatureValid
    /\ call.credential.data.dateOfBirth = 20100115
    /\ call.credential.data.expiresAt = 20301231
    /\ call.claims = Claims(20240101, 180000, "")
    /\ call.flow.presentations = {}
    /\ call.flow.error = "Program assertion failed"

\* the nationality condition of C25, written out
NotExcludedAndUnexpired(kyc, claims) ==
    /\ kyc.nationality # claims.excludedNationality
    /\ ~(kyc.expiresAt < claims.currentDate)

\* the request of spec for a validly signed credential is satisfied: its
\* presentation has been created
Satisfied == call.presentations # {}

\* C25: for a validly signed credential, NationalityExclusion is satisfied
\* exactly when nationality # excludedNationality and currentDate <=
\* expiresAt, and FullVerification exactly when AgeVerification and
\* NationalityExclusion are both satisfied by the same credential and claims
C25_FullIsConjunctionOfAgeAndNationality ==
    (call.op = "createPresentation" /\ call.credential.signatureValid) =>
        LET kyc == call.credential.data
            claims == call.claims
        IN  /\ call.spec = "NationalityExclusion" =>
                (Satisfied <=> NotExcludedAndUnexpired(kyc, claims))
            /\ call.spec = "FullKYCVerification" =>
                /\ Satisfied <=> (/\ OldEnoughAndUnexpired(kyc, claims)
                                  /\ NotExcludedAndUnexpired(kyc, claims))
                /\ Satisfied <=> (/\ Created("AgeVerification", call.credential, claims) # {}
                                  /\ Created("NationalityExclusion", call.credential, claims) # {})

\* C25 witness: a FullVerification request was refused for a holder who is
\* old enough and unexpired but of the excluded nationality
C25_Witness ==
    /\ call.op = "createPresentation"
    /\ call.spec = "FullKYCVerification"
    /\ call.credential.signatureValid
    /\ OldEnoughAndUnexpired(call.credential.data, call.claims)
    /\ call.credential.data.nationality = call.claims.excludedNationality
    /\ call.presentations = {}

\* what getKYCStatus returns for some user when its read succeeds
ReadOutcomes == {getKYCStatus(user) : user \in AllKeys}

\* C26: a failed SDK call is returned as an explicit error: a verifyAgeProof
\* that is not valid carries an error, and a getKYCStatus whose read threw
\* returns something no successful read returns
C26_FailuresAreExplicit ==
    /\ (call.op = "verifyAgeProof" /\ ~call.valid) =>
          call.error # "" /\ call.issuerHash = {}
    /\ (call.op = "getKYCStatus" /\ call.fetch = "throws") =>
          call.result \notin ReadOutcomes

\* C27: getKYCStatus(user) returns null exactly when the user's settled
\* commitment is zero and the settled record otherwise, and hasActiveKYC(user)
\* is true exactly when that result is non-null with isActive true
C27_NullExactlyWhenCommitmentZero ==
    \A user \in AllKeys, fetch \in Fetches :
        LET result == getKYCStatusResult(user, fetch) IN
        /\ result = Null <=> Record(user).commitment = 0
        /\ Record(user).commitment # 0 => result = Some(Record(user))
        /\ hasActiveKYCResult(user, fetch) <=> (result # Null /\ result.value.isActive)

\* the demo after its first settleState: on the fresh registry (no setAdmin
\* was called) the SDK's fee payer has sent one registerKYC, and it is settled
DemoSettled(feePayer) ==
    /\ admin = Empty
    /\ Len(actions) = 1
    /\ actions[1].op = "registerKYC"
    /\ actions[1].sender = feePayer
    /\ actionCursor = 1
    /\ Ready

\* C28: in the demo (registerKYC sent by the SDK, settleState,
\* getKYCStatus(U) for the new user key U, which is not the fee payer's,
\* revokeKYC(U), settleState) getKYCStatus(U) returns an active record after
\* the first settlement and revokeKYC(U) succeeds
C28_DemoStepsSucceed ==
    /\ [](\A feePayer \in Keys : \A U \in Keys \ {feePayer} :
            DemoSettled(feePayer) =>
                /\ getKYCStatus(U) # Null
                /\ getKYCStatus(U).value.isActive
                /\ hasActiveKYC(U))
    /\ [][\A feePayer \in Keys : \A U \in Keys \ {feePayer} :
            (DemoSettled(feePayer) /\ revokeKYC(feePayer, U)) =>
                lastError' = NoError]_vars

\* proveAge is running / has just been called
InProveAge == call.op = "proveAge"
ProveAgeCalled == Idle /\ call'.op = "proveAge"

\* C29: with the SDK's own key proveAge creates the presentation in the step
\* of the call; without it the call only prepares, the wallet's signature is
\* taken over the prepared message, and a presentation comes from finalize
\* after that signature and from nowhere else; with no wallet the call ends
\* with an error and no presentation
C29_CreateOrPrepareSignFinalize ==
    [][/\ ProveAgeCalled =>
            IF call'.feePayerKey
            THEN /\ call'.flow.pc = "done"
                 /\ call'.flow.signatures = {}
                 /\ call'.flow.presentations
                        = Created("AgeVerification", call'.credential, call'.claims)
                    \/ call'.flow.error = "UInt64: out of range"
            ELSE /\ call'.flow.presentations = {}
                 /\ call'.flow.pc = "prepared" \/ call'.flow.error = "UInt64: out of range"
       /\ (call'.op = "proveAge" /\ call'.flow.pc = "signed") =>
            /\ InProveAge
            /\ call.flow.pc = "prepared"
            /\ call'.flow.signatures = {PreparedMessage(call.credential, call.claims)}
       /\ (call'.op = "proveAge" /\ ~call'.feePayerKey /\ call'.flow.presentations # {}) =>
            /\ InProveAge
            /\ call.flow.pc = "signed"
            /\ call.flow.signatures = {PreparedMessage(call.credential, call.claims)}
            /\ finalize
       /\ (InProveAge /\ signFields("none")) =>
            call'.flow = Done("No wallet found", {})
      ]_vars

\* C29 witness: a proveAge without the SDK's key has ended with a
\* presentation, after prepare, the wallet's signature and finalize
C29_Witness ==
    /\ InProveAge
    /\ ~call.feePayerKey
    /\ call.flow.pc = "done"
    /\ call.flow.presentations # {}

\* the registry of the given id, in use or not
RegistryOf(id) == IF other.id = id THEN other ELSE This

\* getKYCStatus(user) asked of the registry of the given id
StatusIn(id, user) ==
    LET record == orElse(RegistryOf(id).kycRecords[user], KYCRecordEmpty)
    IN  IF record.commitment = 0 THEN Null ELSE Some(record)

\* C30: the admin, the committed state, the action history with its pending
\* part and the query results of a registry change only in a step of a
\* method called through that registry: never by a method called through the
\* other one, and never when the caller turns from one to the other
C30_RegistriesIndependent ==
    [][\A id \in {1, 2} :
          (\/ RegistryOf(id)' # RegistryOf(id)
           \/ \E user \in AllKeys : StatusIn(id, user)' # StatusIn(id, user))
          => (thisId = id /\ thisId' = id)]_vars

\* C30 witness: the calls interleaved: registry 1 has a settled record for
\* holder 1 and is not in use, registry 2 has a pending account update and
\* no settled record
C30_Witness ==
    /\ other.id = 1
    /\ other.actionCursor = 1
    /\ StatusIn(1, 1) # Null
    /\ Len(actions) = 1
    /\ actionCursor = 0
    /\ StatusIn(2, 1) = Null

\* C32: in every settled state a record with isActive = true has a non-zero
\* commitment and a non-zero issuerHash; the empty record (commitment 0) is
\* never active
C32_ActiveRecordIsNonZero ==
    \A k \in AllKeys :
        /\ Record(k).isActive => (Record(k).commitment # 0 /\ Record(k).issuerHash # 0)
        /\ Record(k).commitment = 0 => ~Record(k).isActive

\* C32 witness: a registration has been settled and its record is active
C32_Witness ==
    \E k \in Keys : kycRecords[k].isSome /\ Record(k).isActive /\ actionCursor > 0

\* the settled record of holder k is revoked: a commitment, and not active
Revoked(k) == Record(k).commitment # 0 /\ ~Record(k).isActive

C34_NoAdminNoRevocation ==
    /\ [](/\ admin = Empty
          /\ \A n \in DOMAIN actions : actions[n].op = "registerKYC"
          /\ \A k \in AllKeys : Record(k).commitment # 0 => Record(k).isActive)
    /\ [][\A s \in Keys, u \in AllKeys :
            (admin = Empty /\ revokeKYC(s, u)) =>
                /\ lastError' = Failed("revokeKYC", "AuthorizationError")
                /\ UNCHANGED <<admin, kycRecords, totalRegistrations, actions, actionCursor>>]_vars
    /\ [][\A s \in Keys, a \in AllKeys :
            (admin = Empty /\ transferOwnership(s, a)) =>
                /\ lastError' = Failed("transferOwnership", "AuthorizationError")
                /\ UNCHANGED <<admin, kycRecords, totalRegistrations, actions, actionCursor>>]_vars

\* C34 witness: with setAdmin never called and a record settled, a revokeKYC
\* has just been refused
C34_Witness ==
    /\ admin = Empty
    /\ \E k \in Keys : Record(k).isActive
    /\ lastError = Failed("revokeKYC", "AuthorizationError")

\* C35: verifyAgeProof returns valid = true only for a presentation made for
\* the claims it recomputes, the same minAge and the same date; with another
\* minAge or on another day it returns valid = false with an error; every
\* call ends in a returned result, valid or with its error
C35_ValidOnlyForSameClaims ==
    call.op = "verifyAgeProof" =>
        LET made == call.presentation.claims IN
        /\ call.valid =>
              /\ call.presentation.spec = "AgeVerification"
              /\ made.minAgeDelta = call.minAge * 10000
              /\ made.currentDate = call.today
              /\ call.issuerHash = {call.presentation.outputClaim}
        /\ (made.minAgeDelta # call.minAge * 10000 \/ made.currentDate # call.today) =>
              /\ ~call.valid
              /\ call.error # ""
              /\ call.issuerHash = {}
        /\ call.valid <=> call.error = ""

\* C35 witness: an AgeVerification presentation made for 18 years on
\* 2024-01-01 was refused when verified for 18 years on a later day
C35_Witness ==
    /\ call.op = "verifyAgeProof"
    /\ call.presentation.spec = "AgeVerification"
    /\ call.presentation.claims = Claims(20240101, 180000, "")
    /\ call.minAge = 18
    /\ call.today = 20280115
    /\ ~call.valid
    /\ call.error = "Invalid presentation"

\* one of the hook's four step actions acts: the scan, or a call of
\* submitForAttestation, generateProof or registerOnChain returns
StepActionActs ==
    \/ onMRZScanned
    \/ \E ok \in BOOLEAN : issueCredentialReturns(ok)
    \/ \E ok \in BOOLEAN : proveAgeReturns(ok)
    \/ \E sent \in BOOLEAN : registerKYCReturns(sent)
    \/ \E sent \in BOOLEAN : settleStateReturns(sent)
    \/ \E fetch \in Fetches : hasActiveKYCReturns(fetch)

\* C31: a step action moves currentStep forward by exactly one step or leaves
\* it where it is, and when it leaves it and is over it has set error
C31_StepsAdvanceOneAtATime ==
    [][StepActionActs =>
          \/ StepIndex(ui'.currentStep) = StepIndex(ui.currentStep) + 1
          \/ /\ ui'.currentStep = ui.currentStep
             /\ ui'.task = NoTask => ui'.error # ""]_vars

\* C36: whenever currentStep is 'verified', the kycRecord shown is active and
\* the connected address has an active settled record in the registry
C36_VerifiedMeansActiveRecord ==
    ui.currentStep = "verified" =>
        /\ ui.kycRecord.shown
        /\ ui.kycRecord.isActive
        /\ ui.wallet.address # Empty
        /\ hasActiveKYC(ui.wallet.address)

\* registerOnChain is running
InRegisterOnChain == ui.task.op = "registerOnChain"

\* registerOnChain comes to the call or wait named pc in this step
Reaches(pc) == InRegisterOnChain /\ ui.task.pc # pc /\ ui'.task.pc = pc

\* C37: registerOnChain goes registerKYC, wait, settleState, wait,
\* hasActiveKYC in this order: the registry is sent a registration only by
\* the first step and a settlement only after a registerKYC that reported
\* success; a call that reports failure ends registerOnChain with error set,
\* the step unchanged and no further call; and registerOnChain sets the step
\* to 'verified' only after both registerKYC and settleState reported success
C37_RegisterOnChainInOrder ==
    [][/\ Reaches("waitRegistered") =>
            /\ ui.task.pc = "registerKYC"
            /\ ui'.task.registered
            /\ Len(actions') = Len(actions) + 1
       /\ Reaches("settleState") =>
            ui.task.pc = "waitRegistered"
       /\ (\E sent \in BOOLEAN : settleStateReturns(sent)) =>
            ui.task.registered
       /\ Reaches("waitSettled") =>
            /\ ui.task.pc = "settleState"
            /\ ui'.task.settled
            /\ actionCursor' = Len(actions)
       /\ Reaches("hasActiveKYC") =>
            ui.task.pc = "waitSettled"
       /\ (InRegisterOnChain /\ actions' # actions) => ui.task.pc = "registerKYC"
       /\ (registerKYCReturns(FALSE) \/ settleStateReturns(FALSE)) =>
            /\ ui'.task = NoTask
            /\ ui'.error # ""
            /\ ui'.currentStep = ui.currentStep
            /\ UNCHANGED chain
       /\ (\E fetch \in Fetches : hasActiveKYCReturns(fetch)) =>
            /\ ui.task.registered
            /\ ui.task.settled
            /\ ui'.currentStep = "verified"
      ]_vars

\* C37 witness: registerOnChain has gone through all its steps: the
\* registration is settled, the record shown is active, the step 'verified'
C37_Witness ==
    /\ ui.task = NoTask
    /\ ui.currentStep = "verified"
    /\ ui.kycRecord.isActive
    /\ ui.wallet.address # Empty
    /\ actionCursor > 0
    /\ hasActiveKYC(ui.wallet.address)

\* the values disconnectWallet leaves
AtInitialValues ==
    /\ ~ui.wallet.connected
    /\ ui.currentStep = "scan"
    /\ ~ui.mrzData /\ ~ui.credential /\ ~ui.presentation
    /\ ui.kycRecord = NoKycRecord

\* C38: a disconnected hook at its initial values stays there in every step
\* that is not of a connectWallet, also when a call started before the
\* disconnect returns
C38_DisconnectedStaysInitial ==
    [][(/\ AtInitialValues
        /\ ui.task.op # "connectWallet"
        /\ ~(\E mode \in NetworkModes : connectWallet(mode)))
       => AtInitialValues']_vars

\* C39: a switch to another address resets the step to 'scan' and clears
\* kycRecord, mrzData, credential and presentation, an empty account list
\* disconnects, and when the status check that follows returns the step is
\* 'verified' exactly if the connected address has an active settled record
C39_SwitchResetsThenVerifiesIffActive ==
    /\ [][\A account \in AllKeys : handleAccountsChanged(account) =>
            IF account = Empty THEN AtInitialValues'
            ELSE /\ ui'.wallet.address = account
                 /\ ui'.currentStep = "scan"
                 /\ ui'.kycRecord = NoKycRecord
                 /\ ~ui'.mrzData /\ ~ui'.credential /\ ~ui'.presentation]_vars
    /\ [][\A account \in Keys, fetch \in Fetches :
            getKYCStatusReturns(account, fetch) =>
                (ui'.currentStep = "verified" <=> hasActiveKYC(ui'.wallet.address))]_vars
====
